---- MODULE Spec2Model ----
(***************************************************************************)
(* Model of modulus/utils/zenith_angle.py: the cosine of the solar zenith  *)
(* angle from a calendar timestamp or a UNIX timestamp.                    *)
(*                                                                         *)
(* Representation of values                                                *)
(*  - a datetime.datetime is a record of its fields; `aware`/`off` is its  *)
(*    tzinfo (off = UTC offset in minutes), `cls` its exact Python type.   *)
(*  - a datetime.timedelta is the normalised triple days/seconds/us.       *)
(*  - a float number of seconds (a UNIX timestamp) or of days is exact:    *)
(*    [sec, us] stands for sec + us/10^6 seconds; a day count x is held    *)
(*    as 86400*x in that form.                                             *)
(*  - time inputs are boxed: [box, items], box "scalar" with one item, or  *)
(*    "ndarray" / "list" with any number of items.                         *)
(***************************************************************************)
EXTENDS Integers, Sequences, FiniteSets, TLC

VARIABLES time, lon, lat, czDatetime, czTimestamp, call

vars == <<time, lon, lat, czDatetime, czTimestamp, call>>

(* ---------------------------- bounds ----------------------------------- *)
YearsBack == 1
YearsAhead == 2
MaxLen == 2

(* ------------------------- program constants --------------------------- *)
seconds_in_day == 86400
days_in_julian_century == 36525
Million == 1000000

(* ------------------------- calendar (datetime) ------------------------- *)
DT(cls, y, mo, d, h, mi, s, us, aware, off) ==
  [cls |-> cls, y |-> y, mo |-> mo, d |-> d, h |-> h, mi |-> mi, s |-> s,
   us |-> us, aware |-> aware, off |-> off]

\* a non-datetime element: cls "int", "float", "str" or "datetime64"
Other(cls) == DT(cls, 0, 0, 0, 0, 0, 0, 0, FALSE, 0)

\* isinstance(x, datetime.datetime): the class or a subclass of it
IsInstanceDatetime(x) == x.cls \in {"datetime", "subclass"}

IsLeap(y) == y % 4 = 0 /\ (y % 100 # 0 \/ y % 400 = 0)

DaysInMonth(y, m) ==
  IF m = 2 THEN (IF IsLeap(y) THEN 29 ELSE 28)
  ELSE IF m \in {4, 6, 9, 11} THEN 30 ELSE 31

DaysBeforeYear(y) ==
  LET p == y - 1 IN p * 365 + (p \div 4) - (p \div 100) + (p \div 400)

RECURSIVE DaysBeforeMonth(_, _)
DaysBeforeMonth(y, m) ==
  IF m = 1 THEN 0 ELSE DaysBeforeMonth(y, m - 1) + DaysInMonth(y, m - 1)

\* datetime.toordinal()
ToOrdinal(x) == DaysBeforeYear(x.y) + DaysBeforeMonth(x.y, x.mo) + x.d

\* timedelta(days, seconds, microseconds), normalised as the constructor does
Timedelta(days, secs, us) ==
  LET s1 == secs + (us \div Million)
      u  == us % Million
      d1 == days + (s1 \div seconds_in_day)
      s  == s1 % seconds_in_day
  IN [days |-> d1, seconds |-> s, microseconds |-> u]

\* datetime.__sub__(a, b) for two datetimes: a timedelta, or TypeError when
\* exactly one of them is naive
CanSubtract(a, b) == a.aware = b.aware

DatetimeSub(a, b) ==
  LET secsA == a.s + a.mi * 60 + a.h * 3600
      secsB == b.s + b.mi * 60 + b.h * 3600
      offA  == IF a.aware THEN a.off ELSE 0
      offB  == IF b.aware THEN b.off ELSE 0
  IN Timedelta(ToOrdinal(a) - ToOrdinal(b),
               (secsA - secsB) + (offB - offA) * 60,
               a.us - b.us)

\* datetime.replace(tzinfo=pytz.utc): the wall-clock fields are kept
ReplaceTzinfoUTC(x) == [x EXCEPT !.aware = TRUE, !.off = 0]

\* date_type(2000, 1, 1, 12, 0, 0, tzinfo=pytz.utc)
Epoch2000 == DT("datetime", 2000, 1, 1, 12, 0, 0, 0, TRUE, 0)
Epoch1970 == DT("datetime", 1970, 1, 1, 0, 0, 0, 0, TRUE, 0)

\* datetime.timestamp() of an aware datetime: (self - _EPOCH).total_seconds()
TimestampOf(x) ==
  LET td == DatetimeSub(x, Epoch1970)
  IN [sec |-> td.days * seconds_in_day + td.seconds, us |-> td.microseconds]

TIMESTAMP_2000 == TimestampOf(Epoch2000)

(* ------------------------- results of a call --------------------------- *)
NotCalled == [st |-> "none", err |-> "", steps |-> <<>>, val |-> <<>>]
Returned(steps, val) == [st |-> "ok", err |-> "", steps |-> steps, val |-> val]
Raised(steps, err) == [st |-> "raised", err |-> err, steps |-> steps, val |-> <<>>]

(* ------------------------- _total_days --------------------------------- *)
\* the whole days of a timedelta only (its .days)
TotalDaysWhole(td) == [sec |-> td.days * seconds_in_day, us |-> 0]

\* one timedelta as timedelta64[us], divided by one day
TotalDays1(td) ==
  [sec |-> td.days * seconds_in_day + td.seconds, us |-> td.microseconds]

_total_days(diffs) == [i \in 1..Len(diffs) |-> TotalDays1(diffs[i])]

(* ------------------------- _days_from_2000 ----------------------------- *)
\* the guard left out
GuardPassesAlways(first) == TRUE

\* the guard written with isinstance
GuardPassesIsInstance(first) == first.cls \in {"datetime", "subclass"}

\* the guard: type(np.asarray(model_time).ravel()[0]) not in [datetime.datetime]
GuardPasses(first) == first.cls = "datetime"

\* model_time - date_type(2000, ...): a list has no subtraction, an ndarray
\* subtracts element by element
SubtractFails(box, items) ==
  \/ box = "list"
  \/ \E i \in 1..Len(items) :
       \/ ~IsInstanceDatetime(items[i])
       \/ ~CanSubtract(items[i], Epoch2000)

_days_from_2000(model_time) ==
  LET items == IF model_time.box = "scalar" /\ IsInstanceDatetime(model_time.items[1])
               THEN <<ReplaceTzinfoUTC(model_time.items[1])>>
               ELSE model_time.items
  IN IF Len(items) = 0 THEN Raised(<<"ravel">>, "IndexError")
     ELSE IF ~GuardPasses(items[1]) THEN Raised(<<"guard">>, "ValueError")
     ELSE IF SubtractFails(model_time.box, items)
          THEN Raised(<<"guard", "subtract">>, "TypeError")
     ELSE Returned(<<"guard", "subtract", "total_days">>,
                   _total_days([i \in 1..Len(items) |-> DatetimeSub(items[i], Epoch2000)]))

(* ------------------------- float arithmetic ---------------------------- *)
(* From the Julian century on, a float is a fixed-point integer:           *)
(*   - a plain number x (a sine, a cosine) is round(x * Scale);            *)
(*   - a Julian century c is round(c * Scale * JCDigits);                  *)
(*   - an angle in radians is a count of TwoPi-ths of a turn, so that the  *)
(*     reduction modulo 2*pi is exact; degrees carry their own scale.      *)
Scale == 10000
TwoPi == 131072

Abs(x) == IF x < 0 THEN -x ELSE x
Sign(x) == IF x < 0 THEN -1 ELSE 1

\* n / d rounded to the nearest integer, d > 0
RDiv(n, d) == IF n >= 0 THEN (2 * n + d) \div (2 * d) ELSE -((2 * (-n) + d) \div (2 * d))

\* the long product and quotient in limbs of Base: x as <<x0, x1, x2>>,
\* x = x0 + x1 * Base + x2 * Base^2
Base == 10000
Limbs(x) == <<x % Base, (x \div Base) % Base, x \div (Base * Base)>>

\* the column sums of the long product x * y + z of three-limb numbers
Columns(x, y, z) ==
  <<x[1] * y[1] + z[1],
    x[1] * y[2] + x[2] * y[1] + z[2],
    x[1] * y[3] + x[2] * y[2] + x[3] * y[1] + z[3],
    x[2] * y[3] + x[3] * y[2],
    x[3] * y[3]>>

\* the columns from the i-th on reduced to limbs, c the carry into them
RECURSIVE Carry(_, _, _)
Carry(cols, i, c) ==
  IF i > Len(cols) THEN <<c>>
  ELSE <<(cols[i] + c) % Base>> \o Carry(cols, i + 1, (cols[i] + c) \div Base)

\* the six limbs of a * b + h, for a, b, h >= 0
ProductLimbs(a, b, h) == Carry(Columns(Limbs(a), Limbs(b), Limbs(h)), 1, 0)

\* the limbs 1..i of floor(n / d), rem the remainder left by the limbs above
RECURSIVE DivFrom(_, _, _, _)
DivFrom(n, d, i, rem) ==
  IF i = 0 THEN <<>>
  ELSE DivFrom(n, d, i - 1, (rem * Base + n[i]) % d) \o <<(rem * Base + n[i]) \div d>>

\* the six limbs of floor(n / d), for 0 < d <= 2147483647 \div Base - 1
DivLimbs(n, d) == DivFrom(n, d, Len(n), 0)

FromLimbs(q) == q[1] + q[2] * Base + q[3] * Base * Base

\* x * y / (d1 * d2) rounded to the nearest integer, for x, y >= 0
MulDivNat(x, y, d1, d2) ==
  IF x = 0 \/ y = 0 THEN 0
  ELSE IF y <= ((2147483647 - d1 * d2) \div 2) \div x THEN RDiv(x * y, d1 * d2)
  ELSE FromLimbs(DivLimbs(DivLimbs(ProductLimbs(x, y, (d1 * d2) \div 2), d1), d2))

\* a * b / (d1 * d2) rounded to the nearest integer: the float product and
\* quotient.  d1, d2 in 1..(2147483647 \div Base - 1), d1 * d2 < 2^30
MulDiv2(a, b, d1, d2) == Sign(a) * Sign(b) * MulDivNat(Abs(a), Abs(b), d1, d2)

MulDiv(a, b, c) == MulDiv2(a, b, c, 1)

\* a product with a Julian century, and the square of one
JCDigits == 100000
JMul(jc, k) == MulDiv2(jc, k, Scale, JCDigits)

FMul(a, b) == MulDiv(a, b, Scale)
FDiv(a, b) == MulDiv(a, Scale, b)

\* floor of the square root of n > 0 by Newton's iteration from x >= sqrt(n)
RECURSIVE ISqrtFrom(_, _)
ISqrtFrom(n, x) ==
  LET y == (x + (n \div x)) \div 2 IN IF y >= x THEN x ELSE ISqrtFrom(n, y)

\* np.sqrt on a plain number 0 <= v <= 4
Sqrt(v) == IF v <= 0 THEN 0 ELSE ISqrtFrom(v * Scale, 2 * Scale)

\* np.pi as a plain number
PiS == RDiv(31416 * Scale, 10000)

\* np.deg2rad: degrees held at scale degScale to an angle
Deg2Rad(x, degScale) == MulDiv2(x, TwoPi, 360, degScale)

\* an angle u in [0, TwoPi/4] as a plain number of radians
ToRadians(u) == MulDiv(u, 2 * PiS, TwoPi)
\* a plain number of radians as an angle
FromRadians(r) == MulDiv(r, TwoPi, 2 * PiS)

\* a quarter of a turn
Quarter == TwoPi \div 4

\* the sine series on [0, pi/2], x a plain number of radians and x2 its square
SinPoly(x, x2) ==
  FMul(x, Scale - FMul(RDiv(x2, 6),
            Scale - FMul(RDiv(x2, 20),
              Scale - FMul(RDiv(x2, 42), Scale - RDiv(x2, 72)))))

SinSeries(x) == SinPoly(x, FMul(x, x))

\* an angle r in [0, TwoPi) brought to the first quadrant, and the sign of
\* its sine
SinFold(r) ==
  IF r <= Quarter THEN r
  ELSE IF r <= 2 * Quarter THEN 2 * Quarter - r
  ELSE IF r <= 3 * Quarter THEN r - 2 * Quarter
  ELSE 4 * Quarter - r

SinSign(r) == IF r <= 2 * Quarter THEN 1 ELSE -1

\* np.sin of an angle, a plain number
Sin(a) == SinSign(a % TwoPi) * SinSeries(ToRadians(SinFold(a % TwoPi)))

\* np.cos of an angle
Cos(a) == Sin(a + Quarter)

\* arctan of t in [0, 1] (a plain number), as a plain number of radians:
\* two halvings of the angle, then the series
AtanHalve(t) == FDiv(t, Scale + Sqrt(Scale + FMul(t, t)))

AtanPoly(t, t2) ==
  FMul(t, Scale - FMul(t2, RDiv(Scale, 3) - FMul(t2, RDiv(Scale, 5) - RDiv(t2, 7))))

AtanSeries(t) == AtanPoly(t, FMul(t, t))

Atan01(t) == 4 * AtanSeries(AtanHalve(AtanHalve(t)))

Min(a, b) == IF a <= b THEN a ELSE b
Max(a, b) == IF a <= b THEN b ELSE a

\* arctan(lo / hi) for 0 <= lo <= hi, an angle in [0, pi/4]
AtanRatio(lo, hi) == IF hi = 0 THEN 0 ELSE FromRadians(Atan01(FDiv(lo, hi)))

\* the angle of the point (x, y) from t, the angle of its reflection into
\* the first octant
Place(y, x, t) ==
  LET base == IF Abs(y) <= Abs(x) THEN t ELSE Quarter - t
  IN IF x >= 0 THEN Sign(y) * base ELSE Sign(y) * (2 * Quarter - base)

\* np.arctan2(y, x) of two plain numbers, an angle in [-pi, pi]
ArcTan2(y, x) == Place(y, x, AtanRatio(Min(Abs(x), Abs(y)), Max(Abs(x), Abs(y))))

\* a float count of seconds, rounded to whole seconds
Seconds(t) == t.sec + (IF 2 * t.us >= Million THEN 1 ELSE 0)

(* ------------------------- Julian century ------------------------------ *)
\* _datetime_to_julian_century on one day count: days / 36525.0
_datetime_to_julian_century(days) ==
  MulDiv(MulDiv(Seconds(days), JCDigits, seconds_in_day), Scale, days_in_julian_century)

\* _timestamp_to_julian_century:
\* (timestamp - TIMESTAMP_2000) / days_in_julian_century / seconds_in_day
_timestamp_to_julian_century(timestamp) ==
  MulDiv(MulDiv(Seconds(timestamp) - Seconds(TIMESTAMP_2000), JCDigits, days_in_julian_century),
         Scale, seconds_in_day)

(* ------------------------- sidereal time ------------------------------- *)
\* theta in tenths of a second; the product of jul_centuries with the
\* bracket is taken term by term, the bracket itself exceeding the integers
GreenwichTheta(jc) ==
  673105                                               \* 67310.54841
  + MulDiv2(jc, 876600 * 36, Scale, JCDigits \div 1000)  \* jc * 876600 * 3600
  + JMul(jc, 86401848)                                 \* jc * 8640184.812866
  \* jc * jc * (0.093104 - jc * 6.2 * 10e-6), the bracket in millionths
  + RDiv(JMul(jc, JMul(jc, 93104 - JMul(jc, 62))), 100000)

\* the remainder of a truncating division: the result has the sign of x
TruncMod(x, m) == IF x >= 0 THEN x % m ELSE -((-x) % m)

\* Python's and numpy's x % m for m > 0: the result has the sign of m
PyMod(x, m) == x % m

\* _greenwich_mean_sidereal_time: deg2rad(theta / 240.0) % (2 * pi)
_greenwich_mean_sidereal_time(jc) ==
  PyMod(Deg2Rad(MulDiv(GreenwichTheta(jc), 1000, 2400), 1000), TwoPi)

\* the sum wrapped into [0, 2*pi) again
_local_mean_sidereal_time_wrapped(jc, longitude) ==
  PyMod(_greenwich_mean_sidereal_time(jc) + longitude, TwoPi)

\* _local_mean_sidereal_time
_local_mean_sidereal_time(jc, longitude) == _greenwich_mean_sidereal_time(jc) + longitude

(* ------------------------- solar ephemeris ----------------------------- *)
\* jul_centuries ** n
RECURSIVE JPow(_, _)
JPow(jc, n) == IF n = 1 THEN jc ELSE JMul(JPow(jc, n - 1), jc)

\* mean_anomaly and mean_longitude; degrees in thousandths
MeanAnomaly(jc, jc2) ==
  Deg2Rad(357529 + JMul(jc, 35999050)
            - RDiv(JMul(jc2, 1559), 10000)
            - RDiv(JMul(JMul(jc2, jc), 48), 100000), 1000)

MeanLongitude(jc, jc2) ==
  Deg2Rad(280466 + JMul(jc, 36000770) + RDiv(JMul(jc2, 3032), 10000), 1000)

\* d_l, the equation of centre; degrees in millionths
EquationOfCentre(jc, jc2, mean_anomaly) ==
  Deg2Rad(RDiv(FMul(1914600 - JMul(jc, 4817) - JMul(jc2, 14), Sin(mean_anomaly))
                 + FMul(19993 - JMul(jc, 101), Sin(2 * mean_anomaly))
                 + FMul(290, Sin(3 * mean_anomaly)), 10), 100000)

SunEclipticLongitudeOf(jc, jc2) ==
  MeanLongitude(jc, jc2) + EquationOfCentre(jc, jc2, MeanAnomaly(jc, jc2))

\* _sun_ecliptic_longitude
_sun_ecliptic_longitude(jc) == SunEclipticLongitudeOf(jc, JPow(jc, 2))

\* the polynomial of _obliquity_star, arc seconds in thousandths
ObliquityArcsec(jc) ==
  JMul(jc, 46836769)
    - JMul(JPow(jc, 2), 183)
    + JMul(JPow(jc, 3), 2003)
    - RDiv(JMul(JPow(jc, 4), 576), 1000)
    - RDiv(JMul(JPow(jc, 5), 434), 10000)

\* _obliquity_star; degrees in millionths
_obliquity_star(jc) ==
  Deg2Rad(RDiv(23 * Million + RDiv(26 * Million, 60) + RDiv(21406000, 3600)
                 - RDiv(ObliquityArcsec(jc), 3600), 10), 100000)

\* right ascension and declination of the unit vector (x, y, z)
Equatorial(x, y, z) ==
  LET r == Sqrt(Scale - FMul(z, z))
  IN [right_ascension |-> 2 * ArcTan2(y, x + r), declination |-> ArcTan2(z, r)]

\* the unit vector of the ecliptic longitude turned by the obliquity
EclipticToEquatorial(cos_eps, sin_eps, cos_lon, sin_lon) ==
  Equatorial(cos_lon, FMul(cos_eps, sin_lon), FMul(sin_eps, sin_lon))

RightAscensionDeclinationOf(eps, eclon) ==
  EclipticToEquatorial(Cos(eps), Sin(eps), Cos(eclon), Sin(eclon))

\* _right_ascension_declination
_right_ascension_declination(jc) ==
  RightAscensionDeclinationOf(_obliquity_star(jc), _sun_ecliptic_longitude(jc))

(* ------------------------- zenith -------------------------------------- *)
\* _local_hour_angle
_local_hour_angle(jc, longitude, right_ascension) ==
  _local_mean_sidereal_time(jc, longitude) - right_ascension

\* the combination with a sum in place of the last product
CosineZenithSum(lat_rad, dec, h_angle) ==
  FMul(Sin(lat_rad), Sin(dec)) + FMul(Cos(lat_rad), Cos(dec)) + Cos(h_angle)

\* the combination of _star_cos_zenith
CosineZenith(lat_rad, dec, h_angle) ==
  FMul(Sin(lat_rad), Sin(dec)) + FMul(FMul(Cos(lat_rad), Cos(dec)), Cos(h_angle))

StarCosZenithOf(jc, lon_rad, lat_rad, rd) ==
  CosineZenith(lat_rad, rd.declination,
               _local_hour_angle(jc, lon_rad, rd.right_ascension))

\* _star_cos_zenith, lon and lat in radians
_star_cos_zenith(jc, lon_rad, lat_rad) ==
  StarCosZenithOf(jc, lon_rad, lat_rad, _right_ascension_declination(jc))

\* np.deg2rad(lon, dtype=dtype) of whole degrees
DegreesToRadians(deg) == Deg2Rad(deg, 1)

(* ------------------------- public entry points ------------------------ *)
\* cos_zenith_angle with a check of the latitude range added
cos_zenith_angle_validated(model_time, lon_deg, lat_deg) ==
  LET lon_rad == DegreesToRadians(lon_deg)
      lat_rad == DegreesToRadians(lat_deg)
      days    == _days_from_2000(model_time)
  IN IF lat_deg < -90 \/ lat_deg > 90 THEN Raised(<<"validate">>, "ValueError")
     ELSE IF days.st = "raised" THEN Raised(<<"deg2rad">> \o days.steps, days.err)
     ELSE Returned(<<"deg2rad">> \o days.steps \o <<"star_cos_zenith">>,
                   [i \in 1..Len(days.val) |->
                      _star_cos_zenith(_datetime_to_julian_century(days.val[i]), lon_rad, lat_rad)])

\* cos_zenith_angle(time, lon, lat)
cos_zenith_angle(model_time, lon_deg, lat_deg) ==
  LET lon_rad == DegreesToRadians(lon_deg)
      lat_rad == DegreesToRadians(lat_deg)
      days    == _days_from_2000(model_time)
  IN IF days.st = "raised" THEN Raised(<<"deg2rad">> \o days.steps, days.err)
     ELSE Returned(<<"deg2rad">> \o days.steps \o <<"star_cos_zenith">>,
                   [i \in 1..Len(days.val) |->
                      _star_cos_zenith(_datetime_to_julian_century(days.val[i]), lon_rad, lat_rad)])

\* cos_zenith_angle_from_timestamp(timestamp, lon, lat), timestamp an array
\* of floats
cos_zenith_angle_from_timestamp(timestamp, lon_deg, lat_deg) ==
  LET lon_rad == DegreesToRadians(lon_deg)
      lat_rad == DegreesToRadians(lat_deg)
  IN Returned(<<"deg2rad", "star_cos_zenith">>,
              [i \in 1..Len(timestamp) |->
                 _star_cos_zenith(_timestamp_to_julian_century(timestamp[i]), lon_rad, lat_rad)])

(* ------------------------- inputs -------------------------------------- *)
Years == (2000 - YearsBack)..(2000 + YearsAhead)
MonthDays == {<<1, 1>>, <<2, 28>>, <<2, 29>>, <<3, 1>>, <<12, 31>>}
Clocks == {<<0, 0, 0, 0>>, <<12, 0, 0, 0>>, <<23, 59, 59, 999999>>}
\* tzinfo: naive, UTC, UTC+01:00, UTC-05:30
Zones == {<<FALSE, 0>>, <<TRUE, 0>>, <<TRUE, 60>>, <<TRUE, -330>>}

Datetimes ==
  {x \in {DT("datetime", y, md[1], md[2], c[1], c[2], c[3], c[4], z[1], z[2]) :
            y \in Years, md \in MonthDays, c \in Clocks, z \in Zones} :
     x.d <= DaysInMonth(x.y, x.mo)}

\* the elements arrays are built from
Elements ==
  {DT("datetime", 2002, 1, 1, 12, 0, 0, 0, z[1], z[2]) : z \in Zones}
    \cup {DT("datetime", 1999, 12, 31, 23, 59, 59, 999999, TRUE, 0),
          DT("subclass", 2002, 1, 1, 12, 0, 0, 0, TRUE, 0),
          Other("int"), Other("datetime64")}

Scalars ==
  Datetimes \cup {DT("subclass", 2002, 1, 1, 12, 0, 0, 0, z[1], z[2]) : z \in Zones}
            \cup {Other("int"), Other("float"), Other("str")}

SeqsUpTo(S, n) == UNION {[1..k -> S] : k \in 0..n}

\* numpy builds a datetime64 array only from datetime64 values: no array
\* mixes them with Python objects
Homogeneous(s) ==
  \A i, j \in 1..Len(s) : (s[i].cls = "datetime64") = (s[j].cls = "datetime64")

TimeInputs ==
  {[box |-> "scalar", items |-> <<x>>] : x \in Scalars}
    \cup {[box |-> b, items |-> s] :
            b \in {"ndarray", "list"},
            s \in {q \in SeqsUpTo(Elements, MaxLen) : Homogeneous(q)}}

Lons == {-180, 120}
Lats == {-91, 45, 360}

\* the UNIX epoch seconds of the instant a datetime denotes, a naive one
\* read as UTC (model_time.timestamp() of the doctests, run in UTC)
EpochSeconds(x) == TimestampOf(IF x.aware THEN x ELSE ReplaceTzinfoUTC(x))

AllDatetimes(t) ==
  /\ Len(t.items) > 0
  /\ \A i \in 1..Len(t.items) : IsInstanceDatetime(t.items[i])

IsDatetimeScalar(t) == t.box = "scalar" /\ IsInstanceDatetime(t.items[1])

\* c = _timestamp_to_julian_century(model_time.timestamp()) of the doctests
JulianCenturyOf(t) == _timestamp_to_julian_century(EpochSeconds(t.items[1]))

(* ------------------------- operations ---------------------------------- *)
NoCall == [fn |-> "none", out |-> NotCalled]

Init ==
  /\ time \in TimeInputs
  /\ lon \in Lons
  /\ lat \in Lats
  /\ czDatetime = NotCalled
  /\ czTimestamp = NotCalled
  /\ call = NoCall

CallCosZenithAngle ==
  /\ call = NoCall
  /\ czDatetime = NotCalled
  /\ czDatetime' = cos_zenith_angle(time, lon, lat)
  /\ UNCHANGED <<time, lon, lat, czTimestamp, call>>

CallCosZenithAngleFromTimestamp ==
  /\ call = NoCall
  /\ czTimestamp = NotCalled
  /\ AllDatetimes(time)
  /\ czTimestamp' =
       cos_zenith_angle_from_timestamp(
         [i \in 1..Len(time.items) |-> EpochSeconds(time.items[i])], lon, lat)
  /\ UNCHANGED <<time, lon, lat, czDatetime, call>>

Helper(fn, out) ==
  /\ call = NoCall
  /\ czDatetime = NotCalled
  /\ czTimestamp = NotCalled
  /\ call' = [fn |-> fn, out |-> out]
  /\ UNCHANGED <<time, lon, lat, czDatetime, czTimestamp>>

CallDaysFrom2000 ==
  /\ call = NoCall
  /\ Helper("_days_from_2000", _days_from_2000(time))

CallGreenwichMeanSiderealTime ==
  /\ IsDatetimeScalar(time)
  /\ Helper("_greenwich_mean_sidereal_time",
            Returned(<<>>, <<_greenwich_mean_sidereal_time(JulianCenturyOf(time))>>))

CallLocalMeanSiderealTime ==
  /\ IsDatetimeScalar(time)
  /\ Helper("_local_mean_sidereal_time",
            Returned(<<>>, <<_local_mean_sidereal_time(JulianCenturyOf(time),
                                                   DegreesToRadians(lon))>>))

CallLocalHourAngle ==
  /\ IsDatetimeScalar(time)
  /\ Helper("_local_hour_angle",
            Returned(<<>>, <<_local_hour_angle(JulianCenturyOf(time), DegreesToRadians(lon),
                               _right_ascension_declination(JulianCenturyOf(time)).right_ascension)>>))

CallStarCosZenith ==
  /\ IsDatetimeScalar(time)
  /\ Helper("_star_cos_zenith",
            Returned(<<>>, <<_star_cos_zenith(JulianCenturyOf(time), DegreesToRadians(lon),
                                           DegreesToRadians(lat))>>))

Next ==
  \/ CallCosZenithAngle
  \/ CallCosZenithAngleFromTimestamp
  \/ CallDaysFrom2000
  \/ CallGreenwichMeanSiderealTime
  \/ CallLocalMeanSiderealTime
  \/ CallLocalHourAngle
  \/ CallStarCosZenith

Spec == Init /\ [][Next]_vars

(* ========================= properties ================================== *)
RoundOff == 5

Item == time.items[1]
Scalar(x) == [box |-> "scalar", items |-> <<x>>]
\* a datetime.datetime that is naive or carries the UTC offset 0
IsUTC(x) == x.cls = "datetime" /\ (~x.aware \/ x.off = 0)
IsArray(t) == t.box \in {"ndarray", "list"}
Within(a, b, tol) == Abs(a - b) <= tol

\* the instant a datetime denotes: its fields minus its UTC offset, a naive
\* one read as UTC
Instant(x) == IF x.aware THEN x ELSE ReplaceTzinfoUTC(x)

\* days from 1970-01-01 to a civil date, counted by 400-year eras
RefDaysFromCivil(y, m, d) ==
  LET yy  == IF m <= 2 THEN y - 1 ELSE y
      era == yy \div 400
      yoe == yy - era * 400
      mp  == IF m > 2 THEN m - 3 ELSE m + 9
      doy == ((153 * mp + 2) \div 5) + d - 1
      doe == yoe * 365 + (yoe \div 4) - (yoe \div 100) + doy
  IN era * 146097 + doe - 719468

\* the days from 2000-01-01T12:00:00 UTC to a UTC datetime, as a day count
RefDaysSince2000(x) ==
  [sec |-> (RefDaysFromCivil(x.y, x.mo, x.d) - RefDaysFromCivil(2000, 1, 1)) * 86400
             + x.h * 3600 + x.mi * 60 + x.s - 12 * 3600,
   us |-> x.us]

\* C1: for a valid calendar timestamp T, whatever its UTC offset,
\* cos_zenith_angle(T, lon, lat) and
\* cos_zenith_angle_from_timestamp(epoch_seconds(T), lon, lat) both return
\* and agree to within rounding.
C1_PathsAgree ==
  (/\ czDatetime.st # "none" /\ czTimestamp.st # "none"
   /\ time.box = "scalar" /\ Item.cls = "datetime")
  => /\ czDatetime.st = "ok" /\ czTimestamp.st = "ok"
     /\ Within(czDatetime.val[1], czTimestamp.val[1], RoundOff)

\* C2: _days_from_2000 of a datetime returns the days from the 2000 epoch to
\* the instant it denotes (wall-clock fields minus the UTC offset, a naive
\* one read as UTC).
C2_NormalizesToUTC ==
  (/\ call.fn = "_days_from_2000"
   /\ time.box = "scalar" /\ Item.cls = "datetime")
  => /\ call.out.st = "ok"
     /\ call.out.val[1] = TotalDays1(DatetimeSub(Instant(Item), Epoch2000))

\* C3: cos_zenith_angle on an array of naive or UTC-aware datetimes returns
\* an array of the same length, each element the scalar call on that
\* timestamp.
C3_ArrayAsScalars ==
  (/\ czDatetime.st # "none"
   /\ time.box = "ndarray" /\ Len(time.items) > 0
   /\ \A i \in 1..Len(time.items) : IsUTC(time.items[i]))
  => /\ czDatetime.st = "ok"
     /\ Len(czDatetime.val) = Len(time.items)
     /\ \A i \in 1..Len(time.items) :
          czDatetime.val[i] = cos_zenith_angle(Scalar(time.items[i]), lon, lat).val[1]

\* array-like input none of whose elements is a calendar timestamp
NotTimestampArray(t) ==
  /\ IsArray(t) /\ Len(t.items) > 0
  /\ \A i \in 1..Len(t.items) : ~IsInstanceDatetime(t.items[i])

\* C4 as stated: array-like input whose elements are not calendar timestamps
\* makes the calendar-timestamp entry point fail with a TypeError raised by
\* the guard of _days_from_2000, before any subtraction or formula.
C4_GuardRaisesTypeError ==
  (czDatetime.st # "none" /\ NotTimestampArray(time))
  => /\ czDatetime.st = "raised" /\ czDatetime.err = "TypeError"
     /\ czDatetime.steps = <<"deg2rad", "guard">>

\* C4 as amended: the error the guard raises is a ValueError; it is raised
\* before any subtraction or formula, in the entry point and in
\* _days_from_2000 itself.
C4_GuardRaisesValueError ==
  /\ (czDatetime.st # "none" /\ NotTimestampArray(time))
     => /\ czDatetime.st = "raised" /\ czDatetime.err = "ValueError"
        /\ czDatetime.steps = <<"deg2rad", "guard">>
  /\ (call.fn = "_days_from_2000" /\ NotTimestampArray(time))
     => /\ call.out.st = "raised" /\ call.out.err = "ValueError"
        /\ call.out.steps = <<"guard">>

C4_Witness ==
  /\ NotTimestampArray(time) /\ time.box = "ndarray" /\ Len(time.items) = 2
  /\ czDatetime.st = "raised"

\* C5: _days_from_2000 of a UTC datetime is the exact day count from
\* 2000-01-01T12:00:00 UTC: 0 at the epoch, negative before it, 731 for
\* 2002-01-01T12:00:00.
C5_ExactDays ==
  (/\ call.fn = "_days_from_2000"
   /\ time.box = "scalar" /\ IsUTC(Item))
  => /\ call.out.st = "ok"
     /\ call.out.val[1] = RefDaysSince2000(Item)
     /\ (<<Item.y, Item.mo, Item.d, Item.h, Item.mi, Item.s, Item.us>>
           = <<2000, 1, 1, 12, 0, 0, 0>>) => call.out.val[1] = [sec |-> 0, us |-> 0]
     /\ (<<Item.y, Item.mo, Item.d, Item.h, Item.mi, Item.s, Item.us>>
           = <<2002, 1, 1, 12, 0, 0, 0>>) => call.out.val[1] = [sec |-> 731 * 86400, us |-> 0]
     /\ (Item.y < 2000) => call.out.val[1].sec < 0

C5_Witness ==
  /\ call.fn = "_days_from_2000"
  /\ time = Scalar(DT("datetime", 2002, 1, 1, 12, 0, 0, 0, FALSE, 0))
  /\ call.out.val = <<[sec |-> 731 * 86400, us |-> 0]>>

\* C6: _greenwich_mean_sidereal_time returns g with 0 <= g < 2*pi for every
\* Julian century, negative ones included.
C6_GMSTRange ==
  (call.fn = "_greenwich_mean_sidereal_time")
  => (0 <= call.out.val[1] /\ call.out.val[1] < TwoPi)

C6_Witness ==
  /\ call.fn = "_greenwich_mean_sidereal_time"
  /\ JulianCenturyOf(time) < 0
  /\ GreenwichTheta(JulianCenturyOf(time)) < 0
  /\ call.out.val[1] > 0

\* every cosine a returned call holds
Cosines ==
  (IF czDatetime.st = "ok" THEN {czDatetime.val[i] : i \in 1..Len(czDatetime.val)} ELSE {})
    \cup (IF czTimestamp.st = "ok"
          THEN {czTimestamp.val[i] : i \in 1..Len(czTimestamp.val)} ELSE {})
    \cup (IF call.fn = "_star_cos_zenith" THEN {call.out.val[1]} ELSE {})

\* C7: the value of _star_cos_zenith, and so of both entry points, lies in
\* [-1, 1] up to rounding, with no clamping step.
C7_CosineBounded == \A v \in Cosines : -(Scale + RoundOff) <= v /\ v <= Scale + RoundOff

C7_Witness ==
  /\ czDatetime.st = "ok"
  /\ czDatetime.steps = <<"deg2rad", "guard", "subtract", "total_days", "star_cos_zenith">>
  /\ time = Scalar(DT("datetime", 2002, 1, 1, 12, 0, 0, 0, FALSE, 0))
  /\ lon = 120 /\ lat = 360
  /\ Within(czDatetime.val[1], -4478, RoundOff)

\* C8: no longitude or latitude makes an entry point fail: with a datetime
\* cos_zenith_angle returns a value, and cos_zenith_angle_from_timestamp
\* returns one for every timestamp.
C8_NoRangeValidation ==
  /\ (czDatetime.st # "none" /\ time.box = "scalar" /\ Item.cls = "datetime")
     => (czDatetime.st = "ok" /\ Len(czDatetime.val) = 1)
  /\ (czTimestamp.st # "none")
     => (czTimestamp.st = "ok" /\ Len(czTimestamp.val) = Len(time.items))

C8_Witness ==
  /\ czDatetime.st = "ok" /\ czTimestamp.st = "ok"
  /\ time.box = "scalar"
  /\ lat = 360

\* C9: _local_mean_sidereal_time is _greenwich_mean_sidereal_time plus the
\* longitude, not wrapped, so it lies in [lon, lon + 2*pi); _local_hour_angle
\* is that value minus the right ascension.
C9_LMSTUnwrapped ==
  LET jc  == JulianCenturyOf(time)
      lo  == DegreesToRadians(lon)
  IN /\ (call.fn = "_local_mean_sidereal_time")
        => /\ call.out.val[1] = _greenwich_mean_sidereal_time(jc) + lo
           /\ lo <= call.out.val[1] /\ call.out.val[1] < lo + TwoPi
     /\ (call.fn = "_local_hour_angle")
        => call.out.val[1] = _greenwich_mean_sidereal_time(jc) + lo
                               - _right_ascension_declination(jc).right_ascension

C9_Witness ==
  /\ call.fn = "_local_mean_sidereal_time"
  /\ call.out.val[1] >= TwoPi

\* C10: the guard of _days_from_2000 looks at the exact type of the first
\* element only: it rejects the input exactly when that type is not
\* datetime.datetime (a subclass and a number included), and otherwise goes
\* on to the subtraction whatever the other elements are.
C10_GuardFirstElementOnly ==
  (call.fn = "_days_from_2000" /\ Len(time.items) > 0)
  => /\ (Item.cls # "datetime")
          => (call.out.err = "ValueError" /\ call.out.steps = <<"guard">>)
     /\ (Item.cls = "datetime")
          => (call.out.err # "ValueError" /\ Len(call.out.steps) >= 2
              /\ call.out.steps[2] = "subtract")

C10_Witness ==
  /\ call.fn = "_days_from_2000"
  /\ time.box = "ndarray" /\ Len(time.items) = 2
  /\ time.items[1].cls = "datetime" /\ time.items[2].cls = "int"
  /\ call.out.err = "TypeError"
====
